---- MODULE Spec2Model ----
(***************************************************************************)
(* Image-URL resolution pipeline (src/lib/image-processor.ts).             *)
(*                                                                         *)
(* A URL string is a sequence of lexemes: every separator the code looks   *)
(* at (space, "/", ":", ".", "_", "?") is a lexeme of its own and a run of *)
(* other characters is one lexeme.  Every string operation of the source   *)
(* (trim, startsWith, includes, the regular-expression replaces,           *)
(* encodeURIComponent, template concatenation) is the same operation on    *)
(* lexeme sequences.  "localhost" is spelled <<"local", "host">> so that   *)
(* a substring test can match text produced by a replace.                  *)
(***************************************************************************)
EXTENDS Integers, Sequences, FiniteSets, TLC

(***************************************************************************)
(* Class constants                                                         *)
(***************************************************************************)
FALLBACK_IMAGE ==
    <<"https", ":", "/", "/", "via", ".", "placeholder", ".", "com", "/",
      "400x400", "/", "cccccc", "/", "666666", "?", "text", "=", "Product+Image">>

MAX_RETRIES == 3

DEFAULT_DOMAIN == <<"http", ":", "/", "/", "local", "host", ":", "3000">>

LOCALHOST == <<"local", "host">>

LOOPBACK_IP == <<"127", ".", "0", ".", "0", ".", "1">>

AMAZON_COM == <<"amazon", ".", "com">>

SSL_IMAGES_AMAZON_COM == <<"ssl-images-", "amazon", ".", "com">>

MEDIA_AMAZON_COM == <<"media-", "amazon", ".", "com">>

\* the value of an absent error field
NoError == "<undefined>"

(***************************************************************************)
(* String primitives on lexeme sequences                                   *)
(***************************************************************************)
\* the decimal-digit lexemes (\d+)
Digits == {"0", "1", "80", "127", "3000"}

\* lexemes matched by QL\d+ , SX\d+ , SY\d+
QLWords == {"QL70", "QL1"}

SXWords == {"SX300", "SX1", "SX2"}

SYWords == {"SY300", "SY1"}

\* a lone UTF-16 surrogate code unit
LoneSurrogate == "<D800>"

RECURSIVE TrimStart(_)
TrimStart(s) ==
    IF s # <<>> /\ Head(s) = " " THEN TrimStart(Tail(s)) ELSE s

RECURSIVE TrimEnd(_)
TrimEnd(s) ==
    IF s # <<>> /\ s[Len(s)] = " " THEN TrimEnd(SubSeq(s, 1, Len(s) - 1)) ELSE s

\* String.prototype.trim
Trim(s) == TrimEnd(TrimStart(s))

\* String.prototype.startsWith
StartsWith(s, p) ==
    Len(s) >= Len(p) /\ SubSeq(s, 1, Len(p)) = p

\* String.prototype.endsWith (the $-anchored patterns)
EndsWith(s, p) ==
    Len(s) >= Len(p) /\ SubSeq(s, Len(s) - Len(p) + 1, Len(s)) = p

\* String.prototype.includes
Includes(s, p) ==
    \E i \in 1..(Len(s) - Len(p) + 1) : SubSeq(s, i, i + Len(p) - 1) = p

\* s with the lexemes i..j replaced by r
Splice(s, i, j, r) ==
    SubSeq(s, 1, i - 1) \o r \o SubSeq(s, j + 1, Len(s))

Min(S) == CHOOSE m \in S : \A n \in S : m <= n

\* replace(/W\d+_/, ''): the first lexeme of `words` followed by "_" is removed
ReplaceFirstDirective(s, words) ==
    LET at == {i \in 1..(Len(s) - 1) : s[i] \in words /\ s[i + 1] = "_"}
    IN  IF at = {} THEN s ELSE Splice(s, Min(at), Min(at) + 1, <<>>)

\* replace(/FMwebp_/, '')
ReplaceFirstFMwebp(s) == ReplaceFirstDirective(s, {"FMwebp"})

\* replace(/\._.*?_\./, '.'): leftmost "._", lazily up to the next "_."
ReplaceModifierBlock(s) ==
    LET ends(i) == {j \in (i + 2)..(Len(s) - 1) : s[j] = "_" /\ s[j + 1] = "."}
        starts  == {i \in 1..(Len(s) - 1) :
                      s[i] = "." /\ s[i + 1] = "_" /\ ends(i) # {}}
    IN  IF starts = {} THEN s
        ELSE Splice(s, Min(starts), Min(ends(Min(starts))) + 1, <<".">>)

\* replace(/\.webp$/, '.jpg')
ReplaceWebpExtension(s) ==
    IF EndsWith(s, <<".", "webp">>)
    THEN SubSeq(s, 1, Len(s) - 2) \o <<".", "jpg">>
    ELSE s

\* match(/\.(jpg|jpeg|png|gif)$/i)
HasImageExtension(s) ==
    \E e \in {"jpg", "jpeg", "png", "gif", "JPG", "JPEG", "PNG", "GIF"} :
        EndsWith(s, <<".", e>>)

\* encodeURIComponent of one lexeme
EncodeLexeme(c) ==
    CASE c = ":" -> "%3A"
      [] c = "/" -> "%2F"
      [] c = "?" -> "%3F"
      [] c = "=" -> "%3D"
      [] c = "&" -> "%26"
      [] c = " " -> "%20"
      [] OTHER   -> c

\* encodeURIComponent throws URIError on a lone surrogate
EncodeThrows(s) == \E i \in 1..Len(s) : s[i] = LoneSurrogate

encodeURIComponent(s) == [i \in 1..Len(s) |-> EncodeLexeme(s[i])]

(***************************************************************************)
(* new URL(url): the parse of the WHATWG URL parser for the special        *)
(* schemes, on the canonical form scheme "://" authority rest.             *)
(***************************************************************************)
UrlParses(url) ==
    LET s       == Trim(url)  \* the parser strips leading and trailing spaces
        stops   == {k \in 5..Len(s) : s[k] \in {"/", "?", "#"}}
        authEnd == IF stops = {} THEN Len(s) ELSE Min(stops) - 1
        auth    == SubSeq(s, 5, authEnd)
        colons  == {k \in 1..Len(auth) : auth[k] = ":"}
        host    == IF colons = {} THEN auth ELSE SubSeq(auth, 1, Min(colons) - 1)
        port    == IF colons = {} THEN <<>>
                   ELSE SubSeq(auth, Min(colons) + 1, Len(auth))
    IN  /\ Len(s) >= 4
        /\ s[2] = ":" /\ s[3] = "/" /\ s[4] = "/"
        /\ host # <<>>
        /\ \A k \in 1..Len(host) : host[k] \notin {" ", ":", "%"}
        /\ port = <<>> \/ (Len(port) = 1 /\ port[1] \in Digits)

UrlProtocol(url) == Trim(url)[1]

\* new URL(url).host without the port, for a URL that parses
UrlHost(url) ==
    LET s       == Trim(url)
        stops   == {k \in 5..Len(s) : s[k] \in {"/", "?", "#"}}
        authEnd == IF stops = {} THEN Len(s) ELSE Min(stops) - 1
        auth    == SubSeq(s, 5, authEnd)
        colons  == {k \in 1..Len(auth) : auth[k] = ":"}
    IN  IF colons = {} THEN auth ELSE SubSeq(auth, 1, Min(colons) - 1)

(***************************************************************************)
(* ImageProcessor: the pure helpers                                        *)
(***************************************************************************)
isValidUrl(url) ==
    UrlParses(url) /\ UrlProtocol(url) \in {"http", "https"}

\* mutant: no URL is exempt from the fetch
isLocalUrlNever(url) ==
    FALSE

\* the guard of the short-circuit in checkImageAccessibility
isLocalUrl(url) ==
    Includes(url, LOCALHOST) \/ Includes(url, LOOPBACK_IP)

isAmazonImage(url) ==
    \/ Includes(url, AMAZON_COM)
    \/ Includes(url, SSL_IMAGES_AMAZON_COM)
    \/ Includes(url, MEDIA_AMAZON_COM)

transformAmazonImageUrl(url) ==
    LET t1 == ReplaceModifierBlock(url)
        t2 == ReplaceWebpExtension(t1)
        t3 == ReplaceFirstFMwebp(t2)
        t4 == ReplaceFirstDirective(t3, QLWords)
        t5 == ReplaceFirstDirective(t4, SXWords)
        t6 == ReplaceFirstDirective(t5, SYWords)
    IN  IF HasImageExtension(t6) THEN t6 ELSE t6 \o <<".", "jpg">>

createProxyUrl(originalUrl) ==
    <<"https", ":", "/", "/", "images", ".", "weserv", ".", "nl", "/", "?", "url", "=">>
    \o encodeURIComponent(originalUrl)
    \o <<"&", "output", "=", "jpg", "&", "q", "=", "80", "&", "w", "=", "800",
         "&", "h", "=", "800", "&", "fit", "=", "inside">>

(***************************************************************************)
(* ImageProcessingResult                                                   *)
(***************************************************************************)
Result(processedUrl, originalUrl, method, error) ==
    [processedUrl     |-> processedUrl,
     isValid          |-> TRUE,
     originalUrl      |-> originalUrl,
     processingMethod |-> method,
     error            |-> error]

\* the slot of an invocation that has not returned
NoResult ==
    [processedUrl |-> <<>>, isValid |-> FALSE, originalUrl |-> <<>>,
     processingMethod |-> "none", error |-> NoError]

(***************************************************************************)
(* The fetch capability: what one HEAD attempt can end with.               *)
(*   OkImage     response.ok, content-type starts with image/              *)
(*   OkNonImage  response.ok, another content-type                         *)
(*   OkNoType    response.ok, no content-type header                       *)
(*   HttpError   a response with a non-success status                      *)
(*   NetError    fetch rejects (connection error, unparsable URL)          *)
(*   Timeout     the AbortController fires after TIMEOUT_MS, fetch rejects *)
(***************************************************************************)
AllOutcomes == {"OkImage", "OkNonImage", "OkNoType", "HttpError", "NetError", "Timeout"}

\* the outcomes the batch calls are explored with
BatchOutcomes == {"OkImage", "NetError"}

Rejections == {"NetError", "Timeout"}

\* a host under the reserved name "invalid" never resolves
Unresolvable(url) ==
    isValidUrl(url) /\ Includes(UrlHost(url), <<"invalid">>)

FetchOutcomes(kind, url) ==
    IF ~isValidUrl(url) THEN {"NetError"}   \* fetch rejects with a TypeError
    ELSE IF Unresolvable(url) THEN {"NetError"}
    ELSE IF kind = "single" THEN AllOutcomes
    ELSE BatchOutcomes

(***************************************************************************)
(* Inputs                                                                  *)
(***************************************************************************)
GoodUrl == <<"https", ":", "/", "/", "good", ".", "test", "/", "real", ".", "jpg">>

BadUrl == <<"https", ":", "/", "/", "bad", ".", "invalid", ".", "test", "/", "x", ".", "png">>

AmazonUrl ==
    <<"https", ":", "/", "/", "images-na", ".", "ssl-images-", "amazon", ".", "com",
      "/", "images", "/", "I", "/", "abc", ".", "_", "SX300", "_", "QL70", "_",
      "FMwebp", "_", ".", "jpg">>

AmazonCleanUrl ==
    <<"https", ":", "/", "/", "m", ".", "media-", "amazon", ".", "com", "/", "I", "/",
      "abc", ".", "jpg">>

\* two width directives outside a "._ ... _." modifier block
AmazonTwoWidthsUrl ==
    <<"https", ":", "/", "/", "m", ".", "media-", "amazon", ".", "com", "/", "I", "/",
      "abc", "_", "SX300", "_", "SX1", "_", ".", "jpg">>

AmazonSplitLocalUrl ==
    <<"https", ":", "/", "/", "local", "SX1", "_", "host", ".", "amazon", ".", "com",
      ":", "80">>

SurrogateUrl ==
    <<"https", ":", "/", "/", "good", ".", "test", "/", LoneSurrogate, ".", "jpg">>

LocalUrl == <<"http", ":", "/", "/", "local", "host", ":", "3000", "/", "a", ".", "png">>

LoopbackIpUrl ==
    <<"http", ":", "/", "/", "127", ".", "0", ".", "0", ".", "1", ":", "3000", "/",
      "a", ".", "png">>

\* the IPv6 loopback address as a host
LoopbackV6Url ==
    <<"http", ":", "/", "/", "[::1]", ":", "3000", "/", "a", ".", "png">>

\* an unresolvable host, and the text "localhost" in the path
DeadLocalUrl ==
    <<"https", ":", "/", "/", "bad", ".", "invalid", ".", "test", "/",
      "local", "host", ".", "png">>

LocalInPathUrl ==
    <<"https", ":", "/", "/", "cdn", ".", "test", "/", "local", "host", ".", "png">>

RelativeUrl == <<"/", "avatar", ".", "png">>

FtpUrl == <<"ftp", ":", "/", "/", "host", ".", "test", "/", "x", ".", "png">>

ExampleOrigin == <<"https", ":", "/", "/", "example", ".", "test">>

SingleInputs ==
    { <<>>, <<" ">>, <<" ", " ">>,
      <<"not-a-url">>,
      <<"images", "/", "x", ".", "png">>,
      FtpUrl,
      <<"https", ":", "/", "/">>,
      RelativeUrl,
      <<" ">> \o RelativeUrl \o <<" ">>,
      <<"/", "/", "cdn", ".", "test", "/", "x", ".", "png">>,
      GoodUrl,
      <<" ">> \o GoodUrl,
      AmazonUrl, AmazonCleanUrl, AmazonTwoWidthsUrl, AmazonSplitLocalUrl,
      SurrogateUrl, LocalUrl, LoopbackIpUrl, LoopbackV6Url, LocalInPathUrl }

BatchInputs == { <<>>, BadUrl, GoodUrl, <<"not-a-url">>, DeadLocalUrl }

\* the base origins a caller passes (absent, empty, two origins, a non-origin)
BaseGiven == { <<>>,
               ExampleOrigin,
               <<"https", ":", "/", "/", "app", ".", "vercel", ".", "app">>,
               <<"example", ".", "test">> }

\* the longest candidate list of a batch call
MaxUrls == 2

(***************************************************************************)
(* State                                                                   *)
(*   call  the public call being executed: kind, urls, baseUrl             *)
(*   proc  one processImageUrl invocation per url of the call              *)
(*   ret   how the public call ended                                       *)
(* and of ServerCache, the static map of the scrape-product route          *)
(*   cache   the Map: key -> entry (data, timestamp, url)                  *)
(*   now     Date.now(), in ms                                             *)
(*   stored  history: what the latest set since the latest clear put under *)
(*           each key, and when                                            *)
(*   lastOp  the latest operation on the cache and what it returned        *)
(* and of the API routes                                                   *)
(*   video   the POST /api/generate-video request being handled            *)
(*   gemini  the request a Gemini route (generate-ad, ...) is handling         *)
(*   scrape  the POST /api/scrape-product requests, one record each        *)
(*   calls   the calls issued to the external providers                    *)
(* and of the browser                                                      *)
(*   storage localStorage, a map from keys to values                       *)
(*   page    the main page: its status, its handlers awaiting a response   *)
(*           and its pending timers                                        *)
(***************************************************************************)
VARIABLES call, proc, ret, cache, now, stored, lastOp, video, gemini, scrape, calls,
          storage, page

vars == <<call, proc, ret, cache, now, stored, lastOp, video, gemini, scrape, calls,
          storage, page>>

clientVars == <<storage, page>>

apiVars == <<video, gemini, scrape, calls>>

procVars == <<call, proc, ret>>

cacheVars == <<cache, now, stored, lastOp>>

NoCall == [kind |-> "none", urls |-> <<>>, hasBase |-> FALSE, baseUrl |-> <<>>]

IdleProc ==
    [pc          |-> "idle",
     originalUrl |-> <<>>,
     stage       |-> "none",      \* the probe in progress
     url         |-> <<>>,        \* the URL it probes
     attempt     |-> 0,           \* the loop variable of checkImageAccessibility
     outcomes    |-> <<>>,        \* what the attempts of this probe ended with
     waits       |-> <<>>,        \* the setTimeout delays of this probe, in ms
     probes      |-> <<>>,        \* the probes that returned, in order
     fetches     |-> 0,           \* fetch calls issued by the invocation
     exception   |-> NoError,     \* the message of the exception raised in it
     result      |-> NoResult]

\* a route handler that has received no request
IdleRoute == [pc |-> "idle"]

\* no route is handling a request
RoutesIdle == video.pc = "idle" /\ gemini.pc = "idle" /\ scrape = <<>>

\* the record of an operation on the cache
Op(op, key, value, count) ==
    [op |-> op, key |-> key, value |-> value, count |-> count]

Init ==
    /\ call = NoCall
    /\ proc = <<>>
    /\ ret = [status |-> "pending", value |-> <<>>]
    /\ cache = <<>>                  \* new Map()
    /\ now = 0
    /\ stored = <<>>
    /\ lastOp = Op("none", <<>>, "none", 0)
    /\ video = IdleRoute
    /\ gemini = IdleRoute
    /\ scrape = <<>>
    /\ calls = {}
    /\ storage = <<>>
    /\ page = [status |-> "idle", handlers |-> <<>>, timers |-> <<>>]

(***************************************************************************)
(* processImageUrl, written as the continuation that runs between two      *)
(* suspension points.  Each operator maps an invocation record to the      *)
(* record at the next await (or at the return).                            *)
(***************************************************************************)
\* a `return {...}` of processImageUrl
Finish(st, result) ==
    [st EXCEPT !.pc = "done", !.result = result]

\* checkImageAccessibility returned `accessible` to processImageUrl
LogProbe(st, stage, url, accessible) ==
    [st EXCEPT !.probes = Append(@, [stage      |-> stage,
                                     url        |-> url,
                                     accessible |-> accessible,
                                     attempts   |-> Len(st.outcomes),
                                     waits      |-> st.waits,
                                     timedOut   |->       \* every attempt aborted
                                        /\ st.outcomes # <<>>
                                        /\ \A k \in 1..Len(st.outcomes) :
                                              st.outcomes[k] = "Timeout"])]

\* an exception that leaves processImageUrl: the returned promise rejects
Reject(st, message) ==
    [st EXCEPT !.pc = "threw", !.exception = message]

\* mutant: the catch block rethrows
CatchRethrows(st, message) ==
    Reject(st, message)

\* mutant: the catch block lets every URL through, well-formed or not
CatchAlwaysOriginal(st, message) ==
    Finish([st EXCEPT !.exception = message],
           Result(st.originalUrl, st.originalUrl, "original",
                  "Processing failed but using original URL: " \o message))

\* mutant: the catch block never lets the original URL through
CatchAlwaysFallback(st, message) ==
    Finish([st EXCEPT !.exception = message],
           Result(FALLBACK_IMAGE, st.originalUrl, "fallback", message))

\* the catch block of processImageUrl (lines 97-121)
Catch(st, message) ==
    IF isValidUrl(st.originalUrl)
    THEN Finish([st EXCEPT !.exception = message],
                Result(st.originalUrl, st.originalUrl, "original",
                       "Processing failed but using original URL: " \o message))
    ELSE Finish([st EXCEPT !.exception = message],
                Result(FALLBACK_IMAGE, st.originalUrl, "fallback", message))

\* the fetch call of one attempt (lines 148-157)
IssueFetch(st, attempt) ==
    [st EXCEPT !.pc = "fetching", !.attempt = attempt, !.fetches = @ + 1]

\* `await this.checkImageAccessibility(url)` up to its first suspension, and,
\* for a short-circuited url, the return that follows it
StartProbe(st, stage, url) ==
    LET s0 == [st EXCEPT !.stage = stage, !.url = url, !.attempt = 0,
                         !.outcomes = <<>>, !.waits = <<>>]
    IN  IF isLocalUrl(url)
        THEN Finish(LogProbe(s0, stage, url, TRUE),
                    Result(url, st.originalUrl, stage, NoError))
        ELSE IssueFetch(s0, 1)

\* mutant: step 5 returns the placeholder without an error
UseFallbackNoError(st) ==
    Finish(st, Result(FALLBACK_IMAGE, st.originalUrl, "fallback", NoError))

\* mutant: step 5 reports the placeholder as an invalid result
UseFallbackInvalid(st) ==
    Finish(st, [Result(FALLBACK_IMAGE, st.originalUrl, "fallback",
                       "Original image not accessible, using fallback")
                EXCEPT !.isValid = FALSE])

\* step 5 (lines 87-95)
UseFallback(st) ==
    Finish(st, Result(FALLBACK_IMAGE, st.originalUrl, "fallback",
                      "Original image not accessible, using fallback"))

\* mutant: the proxy URL is returned without being probed
TryProxyBlind(st) ==
    IF EncodeThrows(st.originalUrl)
    THEN Catch(st, "URI malformed")
    ELSE Finish(st, Result(createProxyUrl(st.originalUrl), st.originalUrl,
                           "proxy", NoError))

\* step 4 (lines 74-76)
TryProxy(st) ==
    IF EncodeThrows(st.originalUrl)
    THEN Catch(st, "URI malformed")
    ELSE StartProbe(st, "proxy", createProxyUrl(st.originalUrl))

\* mutant: the rewritten URL is probed even when it equals the original
TryTransformAlways(st) ==
    IF isAmazonImage(st.originalUrl)
    THEN StartProbe(st, "converted", transformAmazonImageUrl(st.originalUrl))
    ELSE TryProxy(st)

\* step 3 (lines 57-72)
TryTransform(st) ==
    IF /\ isAmazonImage(st.originalUrl)
       /\ transformAmazonImageUrl(st.originalUrl) # st.originalUrl
    THEN StartProbe(st, "converted", transformAmazonImageUrl(st.originalUrl))
    ELSE TryProxy(st)

\* mutant: a successful probe does not end the pipeline
AfterProbeIgnoresSuccess(st, accessible) ==
    LET s1 == LogProbe(st, st.stage, st.url, accessible)
    IN  CASE st.stage = "original"  -> TryTransform(s1)
          [] st.stage = "converted" -> TryProxy(s1)
          [] OTHER -> IF accessible
                      THEN Finish(s1, Result(st.url, st.originalUrl, st.stage, NoError))
                      ELSE UseFallback(s1)

\* processImageUrl resumes with the value of the probe of st.stage
AfterProbe(st, accessible) ==
    LET s1 == LogProbe(st, st.stage, st.url, accessible)
    IN  IF accessible
        THEN Finish(s1, Result(st.url, st.originalUrl, st.stage, NoError))
        ELSE CASE st.stage = "original"  -> TryTransform(s1)
               [] st.stage = "converted" -> TryProxy(s1)
               [] OTHER                  -> UseFallback(s1)

\* mutant: the empty-input return hands the input back
EmptyInputResultEchoesInput(imageUrl) ==
    Result(imageUrl, imageUrl, "fallback", "Empty image URL provided")

\* the result of the empty-input check (lines 21-27)
EmptyInputResult(imageUrl) ==
    Result(FALLBACK_IMAGE, imageUrl, "fallback", "Empty image URL provided")

\* mutant: the base origin of the caller is ignored
BaseDomainDefaultOnly(hasBase, baseUrl) ==
    DEFAULT_DOMAIN

\* baseUrl || 'http://localhost:3000' (line 35)
BaseDomain(hasBase, baseUrl) ==
    IF hasBase /\ baseUrl # <<>> THEN baseUrl ELSE DEFAULT_DOMAIN

\* processImageUrl from its entry to its first suspension (lines 19-46)
Enter(imageUrl, hasBase, baseUrl) ==
    IF imageUrl = <<>> \/ Trim(imageUrl) = <<>>
    THEN Finish(IdleProc, EmptyInputResult(imageUrl))
    ELSE LET trimmed == Trim(imageUrl)
             domain  == BaseDomain(hasBase, baseUrl)
             originalUrl == IF StartsWith(trimmed, <<"/">>)
                            THEN domain \o trimmed
                            ELSE trimmed
             st == [IdleProc EXCEPT !.originalUrl = originalUrl]
         IN  IF ~isValidUrl(originalUrl)
             THEN Catch(st, "Invalid URL format")
             ELSE StartProbe(st, "original", originalUrl)

\* mutant: a success status is enough, the content-type is not looked at
AfterFetchTrustsStatus(st) ==
    LET outcome == st.outcomes[Len(st.outcomes)]
    IN  CASE outcome \in {"OkImage", "OkNonImage", "OkNoType"} -> AfterProbe(st, TRUE)
          [] outcome = "HttpError" ->
                IF st.attempt + 1 <= MAX_RETRIES
                THEN IssueFetch(st, st.attempt + 1)
                ELSE AfterProbe(st, FALSE)
          [] OTHER ->
                IF st.attempt = MAX_RETRIES
                THEN AfterProbe(st, FALSE)
                ELSE [st EXCEPT !.pc = "backoff",
                                !.waits = Append(@, 1000 * st.attempt)]

\* mutant: a rejected fetch ends the probe at once
AfterFetchNoRetry(st) ==
    LET outcome == st.outcomes[Len(st.outcomes)]
    IN  CASE outcome = "OkImage" -> AfterProbe(st, TRUE)
          [] outcome \in {"OkNonImage", "OkNoType"} -> AfterProbe(st, FALSE)
          [] outcome = "HttpError" ->
                IF st.attempt + 1 <= MAX_RETRIES
                THEN IssueFetch(st, st.attempt + 1)
                ELSE AfterProbe(st, FALSE)
          [] OTHER -> AfterProbe(st, FALSE)

\* mutant: the wait before a retry is one second whatever the attempt
AfterFetchConstantBackoff(st) ==
    LET outcome == st.outcomes[Len(st.outcomes)]
    IN  CASE outcome = "OkImage" -> AfterProbe(st, TRUE)
          [] outcome \in {"OkNonImage", "OkNoType"} -> AfterProbe(st, FALSE)
          [] outcome = "HttpError" ->
                IF st.attempt + 1 <= MAX_RETRIES
                THEN IssueFetch(st, st.attempt + 1)
                ELSE AfterProbe(st, FALSE)
          [] OTHER ->
                IF st.attempt = MAX_RETRIES
                THEN AfterProbe(st, FALSE)
                ELSE [st EXCEPT !.pc = "backoff",
                                !.waits = Append(@, 1000)]

\* checkImageAccessibility resumes after `await fetch` (lines 159-178)
AfterFetch(st) ==
    LET outcome == st.outcomes[Len(st.outcomes)]
    IN  CASE outcome = "OkImage" -> AfterProbe(st, TRUE)
          [] outcome \in {"OkNonImage", "OkNoType"} -> AfterProbe(st, FALSE)
          [] outcome = "HttpError" ->
                IF st.attempt + 1 <= MAX_RETRIES
                THEN IssueFetch(st, st.attempt + 1)
                ELSE AfterProbe(st, FALSE)
          [] OTHER ->                       \* the catch of the attempt
                IF st.attempt = MAX_RETRIES
                THEN AfterProbe(st, FALSE)
                ELSE [st EXCEPT !.pc = "backoff",
                                !.waits = Append(@, 1000 * st.attempt)]

(***************************************************************************)
(* processMultipleImageUrls and getBestImageUrl                            *)
(***************************************************************************)
\* the map over the Promise.allSettled results (lines 238-250)
SettledResult(st, url) ==
    IF st.pc = "done" THEN st.result
    ELSE Result(FALLBACK_IMAGE, url, "fallback",
                IF st.exception # "" THEN st.exception ELSE "Processing failed")

\* mutant: the results come back last input first
MapSettledReversed(p, urls) ==
    [i \in 1..Len(p) |->
        SettledResult(p[Len(p) + 1 - i], urls[Len(p) + 1 - i])]

\* results.map((result, index) => ...) over the settled promises, which
\* Promise.allSettled hands over in the order of the input array
MapSettled(p, urls) ==
    [i \in 1..Len(p) |-> SettledResult(p[i], urls[i])]

priorityOrder == <<"original", "converted", "proxy", "fallback">>

\* results.find(r => r.processingMethod === method && r.isValid)
FindByMethod(results, method) ==
    {i \in 1..Len(results) :
        results[i].processingMethod = method /\ results[i].isValid}

\* mutant: the first result is taken, whatever its method
SelectBestTakesFirst(results) ==
    results[1]

\* the selection loop of getBestImageUrl (lines 270-280)
SelectBest(results) ==
    LET hits == {k \in 1..Len(priorityOrder) :
                    FindByMethod(results, priorityOrder[k]) # {}}
    IN  IF hits = {} THEN results[1]
        ELSE results[Min(FindByMethod(results, priorityOrder[Min(hits)]))]

(***************************************************************************)
(* Actions                                                                 *)
(***************************************************************************)
\* A public method is called.  urls.map(url => this.processImageUrl(url))
\* runs every invocation, in order, up to its first suspension.
CallEffect(kind, urls, hasBase, baseUrl) ==
    /\ call' = [kind |-> kind, urls |-> urls, hasBase |-> hasBase, baseUrl |-> baseUrl]
    /\ proc' = [i \in 1..Len(urls) |-> Enter(urls[i], hasBase, baseUrl)]

\* the method is called from outside the routes
Call(kind, urls, hasBase, baseUrl) ==
    /\ call.kind = "none"
    /\ RoutesIdle
    /\ CallEffect(kind, urls, hasBase, baseUrl)
    /\ UNCHANGED <<ret, cacheVars, apiVars, clientVars>>

\* the base origins worth passing with input u: processImageUrl reads baseUrl
\* only when the trimmed input starts with "/"
BasesFor(u) ==
    IF StartsWith(Trim(u), <<"/">>) THEN BaseGiven ELSE {ExampleOrigin}

CallSingle ==
    \E u \in SingleInputs :
        \E b \in BasesFor(u) :
            \/ Call("single", <<u>>, TRUE, b)
            \/ Call("single", <<u>>, FALSE, <<>>)

CallBatch ==
    \E kind \in {"multiple", "best"}, n \in 0..MaxUrls :
        \E urls \in [1..n -> BatchInputs] :
            Call(kind, urls, FALSE, <<>>)

\* the promise of a pending fetch settles
FetchSettles(i) ==
    /\ proc[i].pc = "fetching"
    /\ \E o \in FetchOutcomes(call.kind, proc[i].url) :
          proc' = [proc EXCEPT ![i].pc = "settled",
                               ![i].outcomes = Append(@, o)]
    /\ UNCHANGED <<call, ret, cacheVars, apiVars, clientVars>>

\* mutant: the loop counter is a static field shared by the invocations
ResumeSharedAttempt(i) ==
    /\ proc[i].pc = "settled"
    /\ proc' = [k \in 1..Len(proc) |->
                   IF k = i THEN AfterFetch(proc[i])
                   ELSE [proc[k] EXCEPT !.attempt = proc[i].attempt]]
    /\ UNCHANGED <<call, ret, cacheVars, apiVars, clientVars>>

\* the invocation resumes after `await fetch(...)`
Resume(i) ==
    /\ proc[i].pc = "settled"
    /\ proc' = [proc EXCEPT ![i] = AfterFetch(proc[i])]
    /\ UNCHANGED <<call, ret, cacheVars, apiVars, clientVars>>

\* the setTimeout of the backoff fires and the loop issues the next attempt
BackoffElapsed(i) ==
    /\ proc[i].pc = "backoff"
    /\ proc' = [proc EXCEPT ![i] = IssueFetch(proc[i], proc[i].attempt + 1)]
    /\ UNCHANGED <<call, ret, cacheVars, apiVars, clientVars>>

AllSettled == \A i \in 1..Len(proc) : proc[i].pc \in {"done", "threw"}

\* the public method returns (or rejects)
Return ==
    /\ call.kind # "none"
    /\ ret.status = "pending"
    /\ AllSettled
    /\ LET results == MapSettled(proc, call.urls)
       IN  ret' =
             CASE call.kind = "single" ->
                    IF proc[1].pc = "threw"
                    THEN [status |-> "threw", value |-> <<>>]
                    ELSE [status |-> "returned", value |-> <<proc[1].result>>]
               [] call.kind = "multiple" ->
                    [status |-> "returned", value |-> results]
               [] OTHER ->
                    IF Len(call.urls) = 0
                    THEN [status |-> "returned",
                          value |-> <<Result(FALLBACK_IMAGE, <<>>, "fallback",
                                             "No URLs provided")>>]
                    ELSE [status |-> "returned", value |-> <<SelectBest(results)>>]
    /\ UNCHANGED <<call, proc, cacheVars, apiVars, clientVars>>

Next ==
    \/ CallSingle
    \/ CallBatch
    \/ \E i \in 1..Len(proc) : FetchSettles(i)
    \/ \E i \in 1..Len(proc) : Resume(i)
    \/ \E i \in 1..Len(proc) : BackoffElapsed(i)
    \/ Return

Spec == Init /\ [][Next]_vars

(***************************************************************************)
(* ServerCache (src/app/api/scrape-product/route.ts)                       *)
(***************************************************************************)
CACHE_DURATION == 24 * 60 * 60 * 1000

\* product URLs a request carries; the second is the first as a user may
\* type it, in capitals and with spaces around it
ProductUrl ==
    <<"https", ":", "/", "/", "amazon", ".", "com", "/", "dp", "/", "b01">>

ProductUrlTyped ==
    <<" ", "HTTPS", ":", "/", "/", "Amazon", ".", "com", "/", "dp", "/", "B01", " ">>

OtherProductUrl ==
    <<"https", ":", "/", "/", "amazon", ".", "com", "/", "dp", "/", "b02">>

CacheUrls == {ProductUrl, ProductUrlTyped, OtherProductUrl}

\* the responses a request stores
Responses == {"response-a", "response-b"}

\* the clock advances by a millisecond or by a whole cache duration
TickSteps == {1, CACHE_DURATION}

\* how many steps of each size the clock takes
MaxTicks == 2

LowerLexeme(c) ==
    CASE c = "HTTPS"  -> "https"
      [] c = "Amazon" -> "amazon"
      [] c = "B01"    -> "b01"
      [] OTHER        -> c

\* String.prototype.toLowerCase
toLowerCase(s) == [i \in 1..Len(s) |-> LowerLexeme(s[i])]

\* base64 of the text with every character outside a-zA-Z0-9 removed; the
\* texts of CacheUrls differ in a letter or digit, which keeps their keys apart
Base64Alnum(s) == <<"base64">> \o s

getCacheKey(url) == Base64Alnum(Trim(toLowerCase(url)))

\* Map.prototype.set
MapSet(m, key, value) ==
    [k \in (DOMAIN m) \cup {key} |-> IF k = key THEN value ELSE m[k]]

\* the map without the keys of `keys`
MapDelete(m, keys) == [k \in (DOMAIN m) \ keys |-> m[k]]

\* mutant: an entry expires the moment it is 24 hours old
ExpiredAtBoundary(timestamp, t) ==
    t - timestamp >= CACHE_DURATION

\* Date.now() - entry.timestamp > this.CACHE_DURATION (lines 171 and 196)
Expired(timestamp, t) ==
    t - timestamp > CACHE_DURATION

\* ServerCache.get: the value returned ("null" for a miss) and the map after it
GetValue(m, key, t) ==
    IF key \notin DOMAIN m THEN "null"
    ELSE IF Expired(m[key].timestamp, t) THEN "null"
    ELSE m[key].data

GetCache(m, key, t) ==
    IF key \in DOMAIN m /\ Expired(m[key].timestamp, t)
    THEN MapDelete(m, {key})
    ELSE m

\* ServerCache.set on the map m (lines 152-160)
SetCache(m, url, data) ==
    MapSet(m, getCacheKey(url),
           [data |-> data, timestamp |-> now, url |-> Trim(url)])

ServerCacheSet(url, data) ==
    LET key == getCacheKey(url)
    IN  /\ cache' = SetCache(cache, url, data)
        /\ stored' = MapSet(stored, key, [data |-> data, at |-> now])
        /\ lastOp' = Op("set", key, "none", 0)
        /\ UNCHANGED <<now, procVars, apiVars, clientVars>>

ServerCacheGet(url) ==
    LET key == getCacheKey(url)
    IN  /\ cache' = GetCache(cache, key, now)
        /\ lastOp' = Op("get", key, GetValue(cache, key, now), 0)
        /\ UNCHANGED <<now, stored, procVars, apiVars, clientVars>>

\* has(url) is get(url) !== null
ServerCacheHas(url) ==
    LET key == getCacheKey(url)
    IN  /\ cache' = GetCache(cache, key, now)
        /\ lastOp' = Op("has", key,
                        IF GetValue(cache, key, now) # "null" THEN "true" ELSE "false",
                        0)
        /\ UNCHANGED <<now, stored, procVars, apiVars, clientVars>>

ServerCacheClear ==
    /\ cache' = <<>>
    /\ stored' = <<>>
    /\ lastOp' = Op("clear", <<>>, "none", 0)
    /\ UNCHANGED <<now, procVars, apiVars, clientVars>>

\* the keys ServerCache.cleanup deletes (lines 192-200)
ExpiredKeys(m) == {k \in DOMAIN m : Expired(m[k].timestamp, now)}

ServerCacheCleanup ==
    LET expired == ExpiredKeys(cache)
    IN  /\ cache' = MapDelete(cache, expired)
        /\ lastOp' = Op("cleanup", <<>>, "none", Cardinality(expired))
        /\ UNCHANGED <<now, stored, procVars, apiVars, clientVars>>

\* time passes between two operations
Tick(d) ==
    /\ d = 1 => now % CACHE_DURATION < MaxTicks
    /\ d = CACHE_DURATION => now \div CACHE_DURATION < MaxTicks
    /\ now' = now + d
    /\ lastOp' = Op("tick", <<>>, "none", 0)
    /\ UNCHANGED <<cache, stored, procVars, apiVars, clientVars>>

CacheNext ==
    \/ \E u \in CacheUrls, d \in Responses : ServerCacheSet(u, d)
    \/ \E u \in CacheUrls : ServerCacheGet(u)
    \/ \E u \in CacheUrls : ServerCacheHas(u)
    \/ ServerCacheClear
    \/ ServerCacheCleanup
    \/ \E d \in TickSteps : Tick(d)

CacheSpec == Init /\ [][CacheNext]_vars

(***************************************************************************)
(* The API routes.  A route handler is an async function: an action is the *)
(* code that runs between two awaits.  The environment variables a request *)
(* is handled under are part of the request record.  ImageProcessor keeps  *)
(* no state between invocations, so the routes run its invocations one at  *)
(* a time through the pipeline above.                                      *)
(***************************************************************************)
\* a response of a route
Response(status, error) == [status |-> status, error |-> error]

\* a call issued to an external provider; key tells whether the key of that
\* provider was configured when the call was issued
ProviderCall(route, request, endpoint, image, key) ==
    [route |-> route, request |-> request, endpoint |-> endpoint,
     image |-> image, key |-> key]

VEO3 == "fal-ai/veo3/fast/image-to-video"

NANO_BANANA == "fal-ai/nano-banana/edit"

\* the pipeline is handed back after its result was read
PipelineReset ==
    /\ call' = NoCall
    /\ proc' = <<>>
    /\ ret' = [status |-> "pending", value |-> <<>>]

PipelineReturned == ret.status \in {"returned", "threw"}

(***************************************************************************)
(* Error messages, as sequences of lexemes in which every text the code    *)
(* searches for is a lexeme (or a run of lexemes) of its own.              *)
(***************************************************************************)
\* messages of the errors the Fal.ai client rejects with
RawValidation == <<"Unprocessable", " ", "Entity">>

RawValidationStatus == <<"Request failed with status ", "422">>

RawUnauthorized == <<"Unauthorized">>

RawRateLimit == <<"Too Many Requests: ", "429">>

RawQuota == <<"quota", " exceeded">>

RawImage == <<"Could not download ", "image">>

RawServerError == <<"Internal Server Error">>

ProviderErrors ==
    { RawValidation, RawValidationStatus, RawUnauthorized, RawRateLimit,
      RawQuota, RawImage, RawServerError }

\* the messages generateVideoWithVeo3 throws
FalValidationMessage ==
    <<"Fal.ai validation error: Invalid parameters sent to Veo3 API. Please check ",
      "image", " URL and prompt format.">>

FalAuthenticationMessage ==
    <<"Fal.ai authentication error: Invalid or missing ", "API key", ".">>

FalRateLimitMessage ==
    <<"Fal.ai rate ", "limit", " exceeded: Please try again later.">>

FalImageMessage ==
    <<"Fal.ai ", "image", " error: Could not process the provided ", "image",
      ". Please ensure the ", "image", " URL is valid and accessible.">>

NoVideoUrlMessage == <<"No video URL received from Fal.ai">>

FalKeyMissingMessage == <<"FAL_KEY is not configured">>

\* the catch block of generateVideoWithVeo3 (fal.ts lines 93-113)
Veo3Catch(message) ==
    IF Includes(message, <<"422">>) \/ Includes(message, <<"Unprocessable", " ", "Entity">>)
    THEN FalValidationMessage
    ELSE IF Includes(message, <<"401">>) \/ Includes(message, <<"Unauthorized">>)
    THEN FalAuthenticationMessage
    ELSE IF Includes(message, <<"429">>)
    THEN FalRateLimitMessage
    ELSE IF Includes(message, <<"image">>)
    THEN FalImageMessage
    ELSE message

\* the inner catch block of POST /api/generate-video (lines 289-345)
VideoCatch(message) ==
    IF Includes(message, <<"API key">>) \/ Includes(message, <<"credentials">>)
    THEN Response(401, "Authentication error with Fal.ai. Check your FAL_KEY.")
    ELSE IF Includes(message, <<"quota">>) \/ Includes(message, <<"limit">>)
    THEN Response(429, "Fal.ai API quota exceeded. Please try again later.")
    ELSE IF Includes(message, <<"image">>)
            \/ Includes(message, <<"Image", " ", "not", " ", "found">>)
    THEN Response(400, "Could not process the product image. Please ensure the image URL is valid and accessible.")
    ELSE IF Includes(message, <<"422">>) \/ Includes(message, <<"Unprocessable">>)
    THEN Response(422, "Fal.ai validation error")
    ELSE Response(500, "Video generation failed")

(***************************************************************************)
(* POST /api/generate-video (src/app/api/edit-image/route.ts, 136-358)     *)
(***************************************************************************)
LocalOrigin == <<"http", ":", "/", "/", "local", "host", ":", "3000">>

VercelOrigin == <<"https", ":", "/", "/", "app", ".", "vercel", ".", "app">>

\* productData.imageUrl is a URL or the empty string (ProductDataSchema)
VideoProductImages == { <<>>, GoodUrl, BadUrl }

\* avatar.videoImageUrl (optional) and avatar.imageUrl, plain strings
AvatarImages == { <<>>, RelativeUrl, GoodUrl }

VideoRequests ==
    [valid          : BOOLEAN,        \* the body passes the schema
     falKey         : BOOLEAN,        \* process.env.FAL_KEY is set
     vercel         : BOOLEAN,        \* process.env.VERCEL_URL is set
     productImage   : VideoProductImages,
     hasScript      : BOOLEAN,
     videoImageUrl  : {<<>>, RelativeUrl},
     avatarImageUrl : AvatarImages]

\* avatar.videoImageUrl || avatar.imageUrl
AvatarImage(req) ==
    IF req.videoImageUrl # <<>> THEN req.videoImageUrl ELSE req.avatarImageUrl

VideoBaseUrl(req) == IF req.vercel THEN VercelOrigin ELSE LocalOrigin

\* the URL the enhancement model answers with for the image it was given
Enhanced(imageUrl) == <<"https", ":", "/", "/", "fal", ".", "media", "/", "enhanced", "?", "of", "=">> \o imageUrl

VideoRespond(req, response) ==
    video' = [pc |-> "responded", req |-> req, resp |-> response]

\* the request arrives; the handler runs up to its first await after the body
VideoReceive(req) ==
    /\ RoutesIdle
    /\ call.kind = "none"
    /\ IF ~req.valid
       THEN /\ VideoRespond(req, Response(400, "Invalid request data. Please check the video generation parameters."))
            /\ UNCHANGED procVars
       ELSE IF ~req.falKey
       THEN /\ VideoRespond(req, Response(503, "Fal.ai API is not configured. Please set FAL_KEY in environment variables."))
            /\ UNCHANGED procVars
       ELSE IF req.productImage = <<>>
       THEN /\ VideoRespond(req, Response(400, "Product image is required for video generation."))
            /\ UNCHANGED procVars
       ELSE IF ~req.hasScript
       THEN /\ VideoRespond(req, Response(400, "Video script is required for video generation."))
            /\ UNCHANGED procVars
       ELSE /\ CallEffect("single", <<req.productImage>>, TRUE, VideoBaseUrl(req))
            /\ video' = [pc |-> "product", req |-> req]
            /\ UNCHANGED ret
    /\ UNCHANGED <<cacheVars, gemini, scrape, calls, clientVars>>

\* getFalClient, then client.subscribe of enhanceProductImageWithNanoBanana
VideoEnhance(req, imageUrl, productResult, avatarResult) ==
    /\ video' = [pc |-> "enhance", req |-> req, imageUrl |-> imageUrl,
                 productResult |-> productResult, avatarResult |-> avatarResult,
                 enhanceThrew |-> ~req.falKey]
    /\ calls' = IF req.falKey
                THEN calls \cup {ProviderCall("generate-video", 1, NANO_BANANA, imageUrl, req.falKey)}
                ELSE calls

\* processImageUrl returned for the product image (lines 203-251)
VideoAfterProduct ==
    /\ video.pc = "product"
    /\ PipelineReturned
    /\ LET req == video.req
       IN  IF ret.status = "threw"
           THEN /\ VideoRespond(req, Response(500, "Video generation failed"))
                /\ PipelineReset
                /\ UNCHANGED calls
           ELSE LET result == ret.value[1]
                IN  IF ~result.isValid
                    THEN /\ VideoRespond(req, Response(400, "Product image processing failed"))
                         /\ PipelineReset
                         /\ UNCHANGED calls
                    ELSE IF AvatarImage(req) # <<>>
                    THEN /\ CallEffect("single", <<AvatarImage(req)>>, TRUE, VideoBaseUrl(req))
                         /\ ret' = [status |-> "pending", value |-> <<>>]
                         /\ video' = [pc |-> "avatar", req |-> req,
                                      imageUrl |-> result.processedUrl,
                                      productResult |-> result]
                         /\ UNCHANGED calls
                    ELSE /\ VideoEnhance(req, result.processedUrl, result, NoResult)
                         /\ PipelineReset
    /\ UNCHANGED <<cacheVars, gemini, scrape, clientVars>>

\* processAvatarImageUrl returned (lines 236-251)
VideoAfterAvatar ==
    /\ video.pc = "avatar"
    /\ PipelineReturned
    /\ LET req == video.req
       IN  IF ret.status = "threw"
           THEN /\ VideoRespond(req, Response(500, "Video generation failed"))
                /\ UNCHANGED calls
           ELSE LET result == ret.value[1]
                IN  VideoEnhance(req,
                                 IF result.isValid THEN result.processedUrl
                                                   ELSE video.imageUrl,
                                 video.productResult, result)
    /\ PipelineReset
    /\ UNCHANGED <<cacheVars, gemini, scrape, clientVars>>

\* primaryImageUrl of generateVideoWithVeo3 (fal.ts lines 27-33)
PrimaryImageUrl(req, productImageUrl) ==
    IF AvatarImage(req) # <<>> THEN AvatarImage(req) ELSE productImageUrl

\* the enhancement settles (lines 254-267); generateVideoWithVeo3 then runs up
\* to its client.subscribe
VideoEnhanceSettles ==
    /\ video.pc = "enhance"
    /\ \E ok \in BOOLEAN :
         LET req == video.req
             imageUrl == IF ok /\ ~video.enhanceThrew
                         THEN Enhanced(video.imageUrl) ELSE video.imageUrl
         IN  IF ~req.falKey
             THEN /\ VideoRespond(req, VideoCatch(FalKeyMissingMessage))
                  /\ UNCHANGED calls
             ELSE /\ video' = [video EXCEPT !.pc = "veo3", !.imageUrl = imageUrl]
                  /\ calls' = calls \cup
                        {ProviderCall("generate-video", 1, VEO3,
                                      PrimaryImageUrl(req, imageUrl), req.falKey)}
    /\ UNCHANGED <<procVars, cacheVars, gemini, scrape, clientVars>>

\* what the subscription to the video model ends with
Veo3Outcomes == {<<"video">>, <<"no-video">>} \cup ProviderErrors

\* the Veo3 call settles; generateVideoWithVeo3 returns or throws and the
\* route answers (lines 273-345)
VideoVeo3Settles ==
    /\ video.pc = "veo3"
    /\ \E o \in Veo3Outcomes :
         video' = [pc |-> "responded",
                   req |-> video.req,
                   imageUrl |-> video.imageUrl,
                   productResult |-> video.productResult,
                   avatarResult |-> video.avatarResult,
                   outcome |-> o,
                   resp |-> IF o = <<"video">> THEN Response(200, "none")
                            ELSE IF o = <<"no-video">>
                            THEN VideoCatch(Veo3Catch(NoVideoUrlMessage))
                            ELSE VideoCatch(Veo3Catch(o))]
    /\ UNCHANGED <<procVars, cacheVars, gemini, scrape, calls, clientVars>>

(***************************************************************************)
(* The routes that call Gemini: POST /api/generate-ad, /api/edit-image,    *)
(* /api/create-variation and /api/generate-video-script.  Each validates   *)
(* the body, checks GEMINI_API_KEY and then awaits its generateContent     *)
(* calls one after the other.                                              *)
(***************************************************************************)
GeminiRoutes == {"generate-ad", "edit-image", "create-variation", "generate-video-script"}

\* the generateContent calls a route awaits in a successful request
CallsOf(route) ==
    IF route \in {"generate-ad", "create-variation"} THEN 2 ELSE 1

GeminiRequests == [valid : BOOLEAN, key : BOOLEAN]

GeminiErrors ==
    { <<"API key", " not valid. Please pass a valid ", "API key", ".">>,
      <<"You exceeded your current ", "quota">>,
      <<"Failed to fetch image">>,
      <<"Internal error encountered.">> }

\* the catch blocks of a route
GeminiCatch(route, message) ==
    IF route \in {"generate-ad", "generate-video-script"} /\ Includes(message, <<"API key">>)
    THEN Response(401, "authentication error with Gemini")
    ELSE IF route \in {"generate-ad", "generate-video-script"}
            /\ (Includes(message, <<"quota">>) \/ Includes(message, <<"limit">>))
    THEN Response(429, "Gemini quota exceeded")
    ELSE IF route = "generate-ad"
            /\ (\/ Includes(message, <<"imagen del producto">>)
                \/ Includes(message, <<"Image not found">>)
                \/ Includes(message, <<"Failed to fetch image">>))
    THEN Response(400, "image error")
    ELSE Response(500, "error")

\* !process.env.GEMINI_API_KEY
KeyMissing(req) == ~req.key

GeminiReceive(route, req) ==
    /\ RoutesIdle
    /\ call.kind = "none"
    /\ IF ~req.valid
       THEN /\ gemini' = [pc |-> "responded", route |-> route, req |-> req, step |-> 0,
                          resp |-> Response(400, "invalid request data")]
            /\ UNCHANGED calls
       ELSE IF KeyMissing(req)
       THEN /\ gemini' = [pc |-> "responded", route |-> route, req |-> req, step |-> 0,
                          resp |-> Response(503, "Gemini API is not configured")]
            /\ UNCHANGED calls
       ELSE /\ gemini' = [pc |-> "provider", route |-> route, req |-> req, step |-> 1,
                          resp |-> Response(0, "none")]
            /\ calls' = calls \cup {ProviderCall(route, 1, "generateContent", <<>>, req.key)}
    /\ UNCHANGED <<procVars, cacheVars, video, scrape, clientVars>>

\* a generateContent call settles
GeminiSettles ==
    /\ gemini.pc = "provider"
    /\ \E o \in {<<"ok">>} \cup GeminiErrors :
         IF o # <<"ok">>
         THEN /\ gemini' = [gemini EXCEPT !.pc = "responded",
                                          !.resp = GeminiCatch(gemini.route, o)]
              /\ UNCHANGED calls
         ELSE IF gemini.step < CallsOf(gemini.route)
         THEN /\ gemini' = [gemini EXCEPT !.step = @ + 1]
              /\ calls' = calls \cup
                    {ProviderCall(gemini.route, gemini.step + 1, "generateContent",
                                  <<>>, gemini.req.key)}
         ELSE /\ gemini' = [gemini EXCEPT !.pc = "responded",
                                          !.resp = Response(200, "none")]
              /\ UNCHANGED calls
    /\ UNCHANGED <<procVars, cacheVars, video, scrape, clientVars>>

(***************************************************************************)
(* POST /api/scrape-product (src/app/api/scrape-product/route.ts, 230-381).*)
(* Several requests may be in progress at once; they share ServerCache.    *)
(***************************************************************************)
ACTOR == "junglee/free-amazon-product-scraper"

\* how many scrape requests a run receives
MaxRequests == 2

ScrapeUrls == {ProductUrl, OtherProductUrl}

ScrapeRequests == [valid : BOOLEAN, token : BOOLEAN, url : ScrapeUrls]

\* what the dataset of a run lists: nothing, or a first item with its image
\* URLs; data stands for the response built from the item
NoItems == [data |-> "none", imageUrls |-> <<>>]

ScrapeItems ==
    { NoItems,
      [data |-> "response-a", imageUrls |-> <<>>],
      [data |-> "response-b", imageUrls |-> <<GoodUrl>>] }

\* mutant: the route goes on without a token
TokenMissingIgnored(req) == FALSE

\* !apifyToken (lines 266-267)
TokenMissing(req) == ~req.token

ScrapeRequest(req, pc, ran, resp) ==
    [pc |-> pc, req |-> req, receivedAt |-> now,
     pending |-> {j \in 1..Len(scrape) : scrape[j].pc # "responded"},
     ran |-> ran, item |-> NoItems, resp |-> resp]

\* a response with its X-Cache-Status header
ScrapeResponse(status, cacheStatus, data) ==
    [status |-> status, cacheStatus |-> cacheStatus, data |-> data]

\* the request arrives; the handler runs up to `await ... .call(input)`
ScrapeReceive(req) ==
    /\ Len(scrape) < MaxRequests
    /\ video.pc = "idle" /\ gemini.pc = "idle"
    /\ IF ~req.valid
       THEN /\ scrape' = Append(scrape, ScrapeRequest(req, "responded", FALSE,
                                                     ScrapeResponse(400, "none", "error")))
            /\ UNCHANGED <<cache, lastOp, calls>>
       ELSE LET swept  == MapDelete(cache, ExpiredKeys(cache))
                key    == getCacheKey(req.url)
                cached == GetValue(swept, key, now)
            IN  /\ cache' = GetCache(swept, key, now)
                /\ lastOp' = Op("get", key, cached, 0)
                /\ IF cached # "null"
                   THEN /\ scrape' = Append(scrape, ScrapeRequest(req, "responded", FALSE,
                                                ScrapeResponse(200, "HIT", cached)))
                        /\ UNCHANGED calls
                   ELSE IF TokenMissing(req)
                   THEN /\ scrape' = Append(scrape, ScrapeRequest(req, "responded", FALSE,
                                                ScrapeResponse(503, "none", "error")))
                        /\ UNCHANGED calls
                   ELSE /\ scrape' = Append(scrape, ScrapeRequest(req, "actor", TRUE,
                                                ScrapeResponse(0, "none", "none")))
                        /\ calls' = calls \cup
                              {ProviderCall("scrape-product", Len(scrape) + 1, ACTOR,
                                            req.url, req.token)}
    /\ UNCHANGED <<procVars, now, stored, video, gemini, clientVars>>

\* the Actor run settles (line 296)
ScrapeActorSettles(i) ==
    /\ scrape[i].pc = "actor"
    /\ \E ok \in BOOLEAN :
         scrape' = [scrape EXCEPT ![i] =
                      IF ok THEN [@ EXCEPT !.pc = "dataset"]
                      ELSE [@ EXCEPT !.pc = "responded",
                                     !.resp = ScrapeResponse(500, "none", "error")]]
    /\ UNCHANGED <<procVars, cacheVars, video, gemini, calls, clientVars>>

\* the response is cached and returned (lines 345-369)
ScrapeStore(i, item) ==
    /\ cache' = SetCache(cache, scrape[i].req.url, item.data)
    /\ stored' = MapSet(stored, getCacheKey(scrape[i].req.url),
                        [data |-> item.data, at |-> now])
    /\ lastOp' = Op("set", getCacheKey(scrape[i].req.url), "none", 0)
    /\ scrape' = [scrape EXCEPT ![i] =
                    [@ EXCEPT !.pc = "responded", !.item = item,
                              !.resp = ScrapeResponse(200, "MISS", item.data)]]

\* listItems settles (lines 302-342); with image URLs the handler runs up to
\* `await ImageProcessor.getBestImageUrl(imageUrls)`
ScrapeDatasetSettles(i) ==
    /\ scrape[i].pc = "dataset"
    /\ \E item \in ScrapeItems :
         IF item = NoItems
         THEN /\ scrape' = [scrape EXCEPT ![i] =
                              [@ EXCEPT !.pc = "responded",
                                        !.resp = ScrapeResponse(404, "none", "error")]]
              /\ UNCHANGED <<procVars, cache, stored, lastOp>>
         ELSE IF item.imageUrls = <<>>
         THEN /\ ScrapeStore(i, item)
              /\ UNCHANGED procVars
         ELSE /\ call.kind = "none"
              /\ CallEffect("best", item.imageUrls, FALSE, <<>>)
              /\ scrape' = [scrape EXCEPT ![i] = [@ EXCEPT !.pc = "image", !.item = item]]
              /\ UNCHANGED <<ret, cache, stored, lastOp>>
    /\ UNCHANGED <<now, video, gemini, calls, clientVars>>

\* getBestImageUrl returned (lines 333-369)
ScrapeAfterBest(i) ==
    /\ scrape[i].pc = "image"
    /\ PipelineReturned
    /\ ScrapeStore(i, scrape[i].item)
    /\ PipelineReset
    /\ UNCHANGED <<now, video, gemini, calls, clientVars>>

\* no scrape request is in progress
ScrapeQuiet == \A j \in 1..Len(scrape) : scrape[j].pc = "responded"

\* a cache duration passes while scrape requests are handled
ScrapeTick ==
    /\ scrape # <<>>
    /\ Tick(CACHE_DURATION)

ApiNext ==
    \/ \E req \in VideoRequests : VideoReceive(req)
    \/ VideoAfterProduct
    \/ VideoAfterAvatar
    \/ VideoEnhanceSettles
    \/ VideoVeo3Settles
    \/ \E route \in GeminiRoutes, req \in GeminiRequests : GeminiReceive(route, req)
    \/ GeminiSettles
    \/ \E req \in ScrapeRequests : ScrapeQuiet /\ ScrapeReceive(req)
    \/ \E i \in 1..Len(scrape) : ScrapeActorSettles(i)
    \/ \E i \in 1..Len(scrape) : ScrapeDatasetSettles(i)
    \/ \E i \in 1..Len(scrape) : ScrapeAfterBest(i)
    \/ ScrapeTick
    \/ \E i \in 1..Len(proc) : FetchSettles(i)
    \/ \E i \in 1..Len(proc) : Resume(i)
    \/ \E i \in 1..Len(proc) : BackoffElapsed(i)
    \/ Return

\* the routes, each handling one request at a time
ApiSpec == Init /\ [][ApiNext]_vars

ScrapeNext ==
    \/ \E req \in ScrapeRequests : ScrapeReceive(req)
    \/ \E i \in 1..Len(scrape) : ScrapeActorSettles(i)
    \/ \E i \in 1..Len(scrape) : ScrapeDatasetSettles(i)
    \/ \E i \in 1..Len(scrape) : ScrapeAfterBest(i)
    \/ ScrapeTick
    \/ \E i \in 1..Len(proc) : FetchSettles(i)
    \/ \E i \in 1..Len(proc) : Resume(i)
    \/ \E i \in 1..Len(proc) : BackoffElapsed(i)
    \/ Return

\* POST /api/scrape-product with requests that overlap in time
ScrapeSpec == Init /\ [][ScrapeNext]_vars

(***************************************************************************)
(* CacheManager, the browser cache over localStorage (src/lib/cache.ts)    *)
(***************************************************************************)
CACHE_PREFIX == "1click_product_cache_"

DEFAULT_EXPIRY_MS == 24 * 60 * 60 * 1000

EXPIRY_SUFFIX == "_expiry"

\* CacheManager.getCacheKey: the prefix, then the base64 text of the
\* normalized URL without the characters outside a-zA-Z0-9
CacheManagerKey(url) == <<CACHE_PREFIX>> \o Base64Alnum(Trim(toLowerCase(url)))

\* `${cacheKey}_expiry`
ExpiryKey(cacheKey) == cacheKey \o <<EXPIRY_SUFFIX>>

\* key.startsWith(this.CACHE_PREFIX)
IsCacheKey(key) == StartsWith(key, <<CACHE_PREFIX>>)

\* key.endsWith('_expiry')
IsExpiryKey(key) == EndsWith(key, <<EXPIRY_SUFFIX>>)

\* key.replace('_expiry', ''): the first occurrence is removed
DataKeyOf(key) ==
    LET i == Min({j \in 1..Len(key) : key[j] = EXPIRY_SUFFIX})
    IN  Splice(key, i, i, <<>>)

\* the product URLs the page caches; the first as a user may type it
BrowserUrls == {ProductUrlTyped, OtherProductUrl}

\* the scrape response the page caches for a URL
BrowserData == {"response-a"}

\* a key another part of the application keeps in localStorage
ForeignKey == <<"theme">>

\* the outcomes of the two localStorage.setItem calls of setCache: both
\* succeed, the first throws, or the second throws (e.g. quota exceeded)
WriteFailures == {"none", "first", "second"}

BrowserUnchanged == UNCHANGED <<procVars, cache, now, stored, apiVars, page>>

\* setCache(url, data) with the default expiry (lines 32-57)
setCache(url, data, failure) ==
    LET cacheKey == CacheManagerKey(url)
        entry    == [data |-> data, timestamp |-> now, url |-> Trim(url)]
        written  == MapSet(storage, cacheKey, entry)
    IN  /\ storage' =
              CASE failure = "first"  -> storage
                [] failure = "second" -> written
                [] OTHER -> MapSet(written, ExpiryKey(cacheKey), now + DEFAULT_EXPIRY_MS)
        /\ lastOp' = Op("setCache", cacheKey,
                        IF failure = "none" THEN "true" ELSE "false", 0)
        /\ BrowserUnchanged

\* the two removeItem calls of removeCache (lines 104-106)
RemoveEntry(m, cacheKey) == MapDelete(m, {cacheKey, ExpiryKey(cacheKey)})

\* neither value is missing (lines 71-76 and 126-131)
HasBoth(m, cacheKey) ==
    cacheKey \in DOMAIN m /\ ExpiryKey(cacheKey) \in DOMAIN m

\* Date.now() > expiry (lines 80 and 135)
PastExpiry(m, cacheKey) == now > m[ExpiryKey(cacheKey)]

\* getCache(url) (lines 62-93)
getCache(url) ==
    LET cacheKey == CacheManagerKey(url)
    IN  /\ IF ~HasBoth(storage, cacheKey)
           THEN /\ storage' = storage
                /\ lastOp' = Op("getCache", cacheKey, "null", 0)
           ELSE IF PastExpiry(storage, cacheKey)
           THEN /\ storage' = RemoveEntry(storage, cacheKey)
                /\ lastOp' = Op("getCache", cacheKey, "null", 0)
           ELSE /\ storage' = storage
                /\ lastOp' = Op("getCache", cacheKey, storage[cacheKey].data, 0)
        /\ BrowserUnchanged

\* removeCache(url) (lines 98-113)
removeCache(url) ==
    LET cacheKey == CacheManagerKey(url)
    IN  /\ storage' = RemoveEntry(storage, cacheKey)
        /\ lastOp' = Op("removeCache", cacheKey, "true", 0)
        /\ BrowserUnchanged

\* hasCache(url) (lines 118-141)
hasCache(url) ==
    LET cacheKey == CacheManagerKey(url)
    IN  /\ IF ~HasBoth(storage, cacheKey)
           THEN /\ storage' = storage
                /\ lastOp' = Op("hasCache", cacheKey, "false", 0)
           ELSE IF PastExpiry(storage, cacheKey)
           THEN /\ storage' = RemoveEntry(storage, cacheKey)
                /\ lastOp' = Op("hasCache", cacheKey, "false", 0)
           ELSE /\ storage' = storage
                /\ lastOp' = Op("hasCache", cacheKey, "true", 0)
        /\ BrowserUnchanged

\* the keys clearAllCache removes (lines 152-159)
ClearedKeys(m) == {key \in DOMAIN m : IsCacheKey(key)}

\* clearAllCache() returns `cleared`
clearAllCache ==
    /\ storage' = MapDelete(storage, ClearedKeys(storage))
    /\ lastOp' = Op("clearAllCache", <<>>, "none", Cardinality(ClearedKeys(storage)))
    /\ BrowserUnchanged

\* totalEntries of getCacheStats (lines 173-195)
TotalEntries(m) ==
    Cardinality({key \in DOMAIN m : IsCacheKey(key) /\ ~IsExpiryKey(key)})

getCacheStats ==
    /\ lastOp' = Op("getCacheStats", <<>>, "none", TotalEntries(storage))
    /\ UNCHANGED storage
    /\ BrowserUnchanged

\* the expiry keys cleanupExpiredCache acts on (lines 216-219)
ExpiredExpiryKeys(m) ==
    {key \in DOMAIN m : IsCacheKey(key) /\ IsExpiryKey(key) /\ m[key] < now}

\* cleanupExpiredCache() (lines 207-233)
cleanupExpiredCache ==
    LET expired == ExpiredExpiryKeys(storage)
    IN  /\ storage' = MapDelete(storage, expired \cup {DataKeyOf(key) : key \in expired})
        /\ lastOp' = Op("cleanupExpiredCache", <<>>, "none", Cardinality(expired))
        /\ BrowserUnchanged

\* other code of the page stores a key of its own
ForeignSetItem ==
    /\ storage' = MapSet(storage, ForeignKey, "dark")
    /\ lastOp' = Op("setItem", ForeignKey, "none", 0)
    /\ BrowserUnchanged

\* time passes between two calls
BrowserTick(d) ==
    /\ Tick(d)
    /\ UNCHANGED storage

BrowserNext ==
    \/ \E url \in BrowserUrls, data \in BrowserData, failure \in WriteFailures :
           setCache(url, data, failure)
    \/ \E url \in BrowserUrls : getCache(url)
    \/ \E url \in BrowserUrls : removeCache(url)
    \/ \E url \in BrowserUrls : hasCache(url)
    \/ clearAllCache
    \/ getCacheStats
    \/ cleanupExpiredCache
    \/ ForeignSetItem
    \/ \E d \in TickSteps : BrowserTick(d)

BrowserSpec == Init /\ [][BrowserNext]_vars

(***************************************************************************)
(* The main page (src/app/page.tsx): status, the handlers that await a     *)
(* response, and the timers that reset status.                             *)
(***************************************************************************)
\* how many requests the user submits in a run
MaxSubmits == 3

ERROR_RESET_MS == 3000

SUCCESS_RESET_MS == 100

\* isLoading of UrlInput (line 283)
UrlInputLoading == page.status \in {"scraping", "generating"}

\* isLoading of ProductForm (line 295)
ProductFormLoading == page.status = "generating"

PageUnchanged == UNCHANGED <<procVars, cacheVars, apiVars, storage>>

\* setTimeout(() => setStatus("idle"), delay)
SetTimeout(timers, delay) == Append(timers, delay)

\* the catch blocks (lines 58-67 and 91-100)
PageCatch(h) ==
    page' = [page EXCEPT !.status = "error",
                         !.handlers[h].pc = "done",
                         !.timers = SetTimeout(@, ERROR_RESET_MS)]

\* the user submits a URL: handleScrapeAndGenerate up to `await fetch`
SubmitUrl ==
    /\ ~UrlInputLoading
    /\ Len(page.handlers) < MaxSubmits
    /\ page' = [page EXCEPT !.status = "scraping",
                            !.handlers = Append(@, [kind |-> "url", pc |-> "scrape"])]
    /\ PageUnchanged

\* the user submits the form: handleGenerateAd up to `await fetch`
SubmitForm ==
    /\ ~ProductFormLoading
    /\ Len(page.handlers) < MaxSubmits
    /\ page' = [page EXCEPT !.status = "generating",
                            !.handlers = Append(@, [kind |-> "form", pc |-> "generate"])]
    /\ PageUnchanged

\* the scrape request of handler h is answered (lines 84-100); on success
\* handleGenerateAd runs up to its `await fetch`
ScrapeResponds(h) ==
    /\ page.handlers[h].pc = "scrape"
    /\ \E success \in BOOLEAN :
         IF success
         THEN page' = [page EXCEPT !.status = "generating",
                                   !.handlers[h].pc = "generate"]
         ELSE PageCatch(h)
    /\ PageUnchanged

\* the generate-ad request of handler h is answered (lines 46-67)
GenerateResponds(h) ==
    /\ page.handlers[h].pc = "generate"
    /\ \E success \in BOOLEAN :
         IF success
         THEN page' = [page EXCEPT !.status = "success",
                                   !.handlers[h].pc = "done",
                                   !.timers = SetTimeout(@, SUCCESS_RESET_MS)]
         ELSE PageCatch(h)
    /\ PageUnchanged

\* () => { setStatus("idle"); }
TimerCallback(status) == "idle"

\* timer k is due; a timer set earlier with a delay that is not longer is due
\* before it
TimerFires(k) ==
    /\ \A j \in 1..(k - 1) : page.timers[j] > page.timers[k]
    /\ page' = [page EXCEPT !.status = TimerCallback(page.status),
                            !.timers = SubSeq(@, 1, k - 1) \o SubSeq(@, k + 1, Len(@))]
    /\ PageUnchanged

PageNext ==
    \/ SubmitUrl
    \/ SubmitForm
    \/ \E h \in 1..Len(page.handlers) : ScrapeResponds(h)
    \/ \E h \in 1..Len(page.handlers) : GenerateResponds(h)
    \/ \E k \in 1..Len(page.timers) : TimerFires(k)

PageSpec == Init /\ [][PageNext]_vars

(***************************************************************************)
(* Properties                                                              *)
(***************************************************************************)
Invocations == 1..Len(proc)

Done(i) == proc[i].pc = "done"

Active(i) == proc[i].pc \in {"fetching", "settled", "backoff"}

Returned == ret.status = "returned"

AllProbesFailed(i) ==
    /\ proc[i].probes # <<>>
    /\ \A k \in 1..Len(proc[i].probes) : ~proc[i].probes[k].accessible

StageRank(stage) ==
    CASE stage = "original"  -> 1
      [] stage = "converted" -> 2
      [] stage = "proxy"     -> 3
      [] OTHER               -> 0

\* the absolute form of input i: trimmed, with the base origin in front of a
\* leading "/"
NormalizedInput(i) ==
    LET t == Trim(call.urls[i])
    IN  IF StartsWith(t, <<"/">>)
        THEN (IF call.hasBase /\ call.baseUrl # <<>> THEN call.baseUrl
              ELSE DEFAULT_DOMAIN) \o t
        ELSE t

\* C1: every result a public method returns has a processedUrl that is a
\* non-empty, well-formed absolute http(s) URL, namely the validated original,
\* the rewritten URL, the proxy URL or the static placeholder.
C1_ProcessedUrlWellFormed ==
    Returned =>
        \A k \in 1..Len(ret.value) :
            LET r == ret.value[k]
            IN  /\ r.processedUrl # <<>>
                /\ isValidUrl(r.processedUrl)
                /\ r.processedUrl \in
                       { r.originalUrl,
                         transformAmazonImageUrl(r.originalUrl),
                         createProxyUrl(r.originalUrl),
                         FALLBACK_IMAGE }

\* C2: no public method ends by throwing or rejecting, whatever the input and
\* the fetch outcomes: an exception raised inside a stage ends as a returned
\* result carrying an error, a started call that has not returned always has a
\* next step, and it returns one result per invocation (one for getBestImageUrl).
C2_NeverThrows ==
    /\ ret.status # "threw"
    /\ \A i \in Invocations :
          /\ proc[i].pc # "threw"
          /\ proc[i].exception # NoError =>
                /\ Done(i)
                /\ proc[i].result.processingMethod \in {"original", "fallback"}
                /\ proc[i].result.error # NoError
    /\ (call.kind # "none" /\ ret.status = "pending") =>
          \/ \E i \in Invocations : Active(i)      \* a step of an invocation
          \/ AllSettled                            \* the step that returns
    /\ Returned =>
          Len(ret.value) = IF call.kind = "multiple" THEN Len(call.urls) ELSE 1

C2_Witness ==
    /\ Returned
    /\ \E i \in Invocations : proc[i].exception = "URI malformed"

\* C3: within one invocation the probes run in the order original, rewritten,
\* proxy; a probe is in progress only while every earlier probe has returned
\* failure, and after a successful probe the invocation has returned.
C3_ProbeOrder ==
    \A i \in Invocations :
        LET p == proc[i].probes
        IN  /\ Len(p) > 0 => p[1].stage = "original" /\ p[1].url = proc[i].originalUrl
            /\ \A k \in 1..(Len(p) - 1) :
                  /\ ~p[k].accessible
                  /\ StageRank(p[k].stage) < StageRank(p[k + 1].stage)
            /\ \A k \in 1..Len(p) :
                  /\ p[k].stage = "converted" =>
                        p[k].url = transformAmazonImageUrl(proc[i].originalUrl)
                  /\ p[k].stage = "proxy" =>
                        p[k].url = createProxyUrl(proc[i].originalUrl)
                  /\ p[k].accessible => Done(i)
            /\ Active(i) =>
                  /\ \A k \in 1..Len(p) :
                        /\ ~p[k].accessible
                        /\ StageRank(p[k].stage) < StageRank(proc[i].stage)
                  /\ Len(p) = 0 => proc[i].stage = "original"

C3_Witness ==
    \E i \in Invocations :
        /\ Len(proc[i].probes) = 3
        /\ proc[i].probes[3].stage = "proxy"
        /\ proc[i].probes[3].accessible

\* C4: an empty or whitespace-only input yields the fallback result with the
\* static placeholder, and the invocation never issues a fetch.
C4_EmptyInputNoFetch ==
    \A i \in Invocations :
        Trim(call.urls[i]) = <<>> =>
            /\ Done(i)
            /\ proc[i].fetches = 0
            /\ proc[i].probes = <<>>
            /\ proc[i].result.processingMethod = "fallback"
            /\ proc[i].result.processedUrl = FALLBACK_IMAGE
            /\ (Returned /\ call.kind = "single") => ret.value[1] = proc[i].result

C4_Witness ==
    /\ Returned
    /\ call.kind = "single"
    /\ call.urls[1] = <<" ", " ">>
    /\ ret.value[1].processingMethod = "fallback"

\* C5 as stated: every non-empty input the URL validator rejects (a relative
\* path included) yields isValid, method fallback and the static placeholder.
C5_RejectedInputFallsBack ==
    \A i \in Invocations :
        (call.urls[i] # <<>> /\ ~isValidUrl(call.urls[i]) /\ Done(i)) =>
            /\ proc[i].result.isValid
            /\ proc[i].result.processingMethod = "fallback"
            /\ proc[i].result.processedUrl = FALLBACK_IMAGE

\* C5 amended: every non-empty input whose absolute form (trimmed, the base
\* origin in front of a leading "/") the URL validator rejects yields isValid,
\* method fallback and the static placeholder, without a fetch.
C5_UnresolvableInputFallsBack ==
    \A i \in Invocations :
        (call.urls[i] # <<>> /\ ~isValidUrl(NormalizedInput(i))) =>
            /\ Done(i)
            /\ proc[i].fetches = 0
            /\ proc[i].result.isValid
            /\ proc[i].result.processingMethod = "fallback"
            /\ proc[i].result.processedUrl = FALLBACK_IMAGE

C5_Witness ==
    /\ Returned
    /\ call.kind = "single"
    /\ call.urls[1] = FtpUrl
    /\ ret.value[1].processedUrl = FALLBACK_IMAGE

C7_ExhaustedGivesFallback ==
    /\ \A i \in Invocations :
          Done(i) =>
              /\ (/\ proc[i].exception = NoError
                  /\ AllProbesFailed(i)
                  /\ proc[i].probes[Len(proc[i].probes)].stage = "proxy") =>
                    /\ proc[i].result.processingMethod = "fallback"
                    /\ proc[i].result.processedUrl = FALLBACK_IMAGE
              /\ proc[i].result.processingMethod = "fallback" =>
                    proc[i].result.error \notin {NoError, ""}
    /\ \A k \in 1..Len(ret.value) :
          ret.value[k].processingMethod = "fallback" =>
              ret.value[k].error \notin {NoError, ""}

C7_Witness ==
    \E i \in Invocations :
        /\ Done(i)
        /\ Len(proc[i].probes) = 3
        /\ AllProbesFailed(i)
        /\ proc[i].result.processingMethod = "fallback"

\* C8: for an input starting with "/" the URL that is validated, probed and
\* reported as originalUrl is the base origin followed by the trimmed input;
\* without a base origin (absent, or the empty string) it is the default origin.
C8_RelativeUrlResolution ==
    \A i \in Invocations :
        StartsWith(call.urls[i], <<"/">>) =>
            LET B == IF call.hasBase /\ call.baseUrl # <<>> THEN call.baseUrl
                     ELSE DEFAULT_DOMAIN
                expected == B \o Trim(call.urls[i])
            IN  /\ proc[i].originalUrl = expected
                /\ Done(i) => proc[i].result.originalUrl = expected
                /\ proc[i].probes # <<>> => proc[i].probes[1].url = expected
                /\ (Active(i) /\ proc[i].stage = "original") => proc[i].url = expected
                /\ isValidUrl(expected) <=> (Active(i) \/ proc[i].probes # <<>>)
                /\ ~isValidUrl(expected) =>
                      Done(i) /\ proc[i].result.error = "Invalid URL format"

C8_Witness ==
    /\ call.kind = "single"
    /\ call.urls[1] = RelativeUrl
    /\ call.hasBase
    /\ call.baseUrl = ExampleOrigin
    /\ proc[1].pc = "fetching"
    /\ proc[1].stage = "original"
    /\ proc[1].url = ExampleOrigin \o RelativeUrl

\* invocation i resumes after a fetch in this step
Resumes(i) == proc[i].pc = "settled" /\ proc'[i] # proc[i]

\* the probe of invocation i returns to processImageUrl in this step
ProbeReturns(i) == Len(proc'[i].probes) > Len(proc[i].probes)

ReturnedProbe(i) == proc'[i].probes[Len(proc[i].probes) + 1]

RetryableFailures == {"HttpError", "NetError", "Timeout"}

\* C9: a probe that fetches makes at most 3 attempts and returns true exactly
\* when one of its attempts got a success status with an image/ content-type:
\* a success status with another or no content-type never yields true, and
\* failed attempts before the successful one do not change the result.
C9_ProbeTrueIffImageResponse ==
    [][\A i \in Invocations :
          Resumes(i) =>
              LET o        == proc[i].outcomes
                  sawImage == \E k \in 1..Len(o) : o[k] = "OkImage"
              IN  /\ Len(o) <= MAX_RETRIES
                  /\ sawImage => ProbeReturns(i)
                  /\ ProbeReturns(i) =>
                        /\ ReturnedProbe(i).url = proc[i].url
                        /\ ReturnedProbe(i).attempts = Len(o)
                        /\ ReturnedProbe(i).accessible <=> sawImage]_vars

C9_Witness ==
    \E i \in Invocations :
        \E k \in 1..Len(proc[i].probes) :
            /\ proc[i].probes[k].accessible
            /\ proc[i].probes[k].attempts = MAX_RETRIES
            /\ proc[i].probes[k].waits # <<>>

\* C10 as stated: a probe that fetched returns false only after all 3 attempts,
\* whatever the failure of each attempt (a non-image content-type included).
C10_FalseOnlyAfterAllAttempts ==
    \A i \in Invocations :
        \A k \in 1..Len(proc[i].probes) :
            ~proc[i].probes[k].accessible =>
                proc[i].probes[k].attempts = MAX_RETRIES

\* C10 amended: a probe that fetched returns false only after all 3 attempts
\* when the attempts fail by network error, timeout or non-success status; a
\* success status with a non-image or missing content-type returns false at
\* once, without further attempts.
C10_FalseAfterRetriesOrNonImage ==
    [][\A i \in Invocations :
          Resumes(i) =>
              LET o    == proc[i].outcomes
                  last == o[Len(o)]
              IN  /\ (ProbeReturns(i) /\ ~ReturnedProbe(i).accessible) =>
                        /\ \A k \in 1..(Len(o) - 1) : o[k] \in RetryableFailures
                        /\ \/ Len(o) = MAX_RETRIES /\ last # "OkImage"
                           \/ last \in {"OkNonImage", "OkNoType"}
                  /\ (last \in RetryableFailures /\ Len(o) < MAX_RETRIES) =>
                        ~ProbeReturns(i) /\ Active(i)']_vars

C10_Witness ==
    \E i \in Invocations :
        \E k \in 1..Len(proc[i].probes) :
            /\ ~proc[i].probes[k].accessible
            /\ proc[i].probes[k].attempts = MAX_RETRIES
            /\ proc[i].probes[k].waits = <<1000, 2000>>

\* the backoff schedule of the specification: k seconds after the k-th attempt
LinearBackoff(n) == [k \in 1..n |-> 1000 * k]

\* C11: one probe makes at most 3 fetch attempts, and between two consecutive
\* attempts of a probe it waits k seconds after the k-th failed attempt (1 s
\* before the second attempt, 2 s before the third), whatever the kind of
\* failure of that attempt was.
C11_BackoffBetweenAttempts ==
    \A i \in Invocations :
        /\ proc[i].attempt <= MAX_RETRIES
        /\ Len(proc[i].outcomes) <= MAX_RETRIES
        /\ proc[i].pc = "fetching" =>
              proc[i].waits = LinearBackoff(proc[i].attempt - 1)

OnlyTimeouts(o) == o # <<>> /\ \A k \in 1..Len(o) : o[k] = "Timeout"

LoopbackHosts == {LOCALHOST, LOOPBACK_IP, <<"[::1]">>}

\* the invocation returned its URL as "original" without any fetch
ShortCircuited(i) ==
    /\ Done(i)
    /\ proc[i].fetches = 0
    /\ proc[i].probes = <<[stage |-> "original", url |-> proc[i].originalUrl,
                           accessible |-> TRUE, attempts |-> 0, waits |-> <<>>,
                           timedOut |-> FALSE]>>
    /\ proc[i].result =
          Result(proc[i].originalUrl, proc[i].originalUrl, "original", NoError)

ProbedSuccessfully(i, stage, url) ==
    \E k \in 1..Len(proc[i].probes) :
        /\ proc[i].probes[k].stage = stage
        /\ proc[i].probes[k].url = url
        /\ proc[i].probes[k].accessible

\* C14: a result with method converted (resp. proxy) is returned only when
\* exactly the rewritten (resp. proxy) URL of the invocation was probed with
\* success earlier in that invocation, and a result tagged original, converted
\* or proxy without an error carries a processedUrl whose probe succeeded in
\* that invocation; what a public method returns with such a tag is the result
\* of one of its invocations.
C14_NeverTrustedBlindly ==
    /\ \A i \in Invocations :
          Done(i) =>
             LET r == proc[i].result
             IN  /\ r.processingMethod = "converted" =>
                       /\ r.processedUrl = transformAmazonImageUrl(proc[i].originalUrl)
                       /\ ProbedSuccessfully(i, "converted", r.processedUrl)
                 /\ r.processingMethod = "proxy" =>
                       /\ r.processedUrl = createProxyUrl(proc[i].originalUrl)
                       /\ ProbedSuccessfully(i, "proxy", r.processedUrl)
                 /\ (/\ r.processingMethod \in {"original", "converted", "proxy"}
                     /\ r.error = NoError) =>
                       ProbedSuccessfully(i, r.processingMethod, r.processedUrl)
    /\ Returned =>
          \A k \in 1..Len(ret.value) :
              ret.value[k].processingMethod # "fallback" =>
                  \E i \in Invocations : Done(i) /\ ret.value[k] = proc[i].result

C14_Witness ==
    /\ Returned
    /\ call.kind = "single"
    /\ ret.value[1].processingMethod = "converted"
    /\ ret.value[1].error = NoError
    /\ Len(proc[1].probes) = 2
    /\ ~proc[1].probes[1].accessible
    /\ proc[1].probes[2].accessible
    /\ proc[1].probes[2].attempts >= 1
    /\ proc[1].probes[2].url = ret.value[1].processedUrl

\* a width, height, quality or FMwebp directive stands in s
HasDirective(s) ==
    \E k \in 1..Len(s) :
        \/ s[k] = "FMwebp"
        \/ /\ s[k] \in SXWords \cup SYWords \cup QLWords
           /\ k < Len(s)
           /\ s[k + 1] = "_"

\* the URLs the Rewriter produced in invocation i
RewrittenUrls(i) ==
    {proc[i].probes[k].url :
        k \in {n \in 1..Len(proc[i].probes) : proc[i].probes[n].stage = "converted"}}
    \cup (IF proc[i].stage = "converted" THEN {proc[i].url} ELSE {})

\* C15: for every URL of the known image-hosting domain family the output of
\* the Rewriter ends in a recognized image extension and contains no width
\* (SX<n>_), height (SY<n>_), quality (QL<n>_) or FMwebp directive, however
\* many directives the input contains.
C15_RewriterRemovesDirectives ==
    \A i \in Invocations :
        isAmazonImage(proc[i].originalUrl) =>
            \A u \in RewrittenUrls(i) :
                /\ u = transformAmazonImageUrl(proc[i].originalUrl)
                /\ HasImageExtension(u)
                /\ ~HasDirective(u)

\* the probes of invocation i that returned true
SuccessfulProbes(i) ==
    {k \in 1..Len(proc[i].probes) : proc[i].probes[k].accessible}

MethodRank(method) ==
    CASE method = "original"  -> 1
      [] method = "converted" -> 2
      [] method = "proxy"     -> 3
      [] OTHER                -> 4

\* C17: for a non-empty candidate list getBestImageUrl returns the result of
\* the first candidate, in input order, whose method is the best one present
\* among all candidates' results (original > converted > proxy > fallback),
\* whatever the interleaving of the resolutions and wherever the candidates of
\* lower priority stand; when every candidate ends as fallback that is the
\* first candidate's result.
C17_PriorityLaw ==
    (Returned /\ call.kind = "best" /\ Len(call.urls) > 0) =>
        /\ Len(ret.value) = 1
        /\ \E j \in Invocations :
              /\ ret.value[1] = proc[j].result
              /\ \A k \in Invocations :
                    MethodRank(proc[k].result.processingMethod)
                        >= MethodRank(proc[j].result.processingMethod)
              /\ \A k \in 1..(j - 1) :
                    MethodRank(proc[k].result.processingMethod)
                        > MethodRank(proc[j].result.processingMethod)
        /\ (\A k \in Invocations : proc[k].result.processingMethod = "fallback") =>
              ret.value[1] = proc[1].result

C17_Witness ==
    /\ Returned
    /\ call.kind = "best"
    /\ call.urls = <<BadUrl, GoodUrl>>
    /\ proc[1].result.processingMethod = "proxy"
    /\ proc[2].result.processingMethod = "original"
    /\ ret.value = <<Result(GoodUrl, GoodUrl, "original", NoError)>>

\* candidate k was fetched and answered with an image
ReachableImage(k) ==
    /\ ~Unresolvable(proc[k].originalUrl)
    /\ \E n \in 1..Len(proc[k].probes) :
          /\ proc[k].probes[n].stage = "original"
          /\ proc[k].probes[n].accessible
          /\ proc[k].probes[n].attempts >= 1

\* candidate k is empty, or a well-formed URL that no fetch can reach
EmptyOrUnreachable(k) ==
    \/ Trim(call.urls[k]) = <<>>
    \/ isValidUrl(call.urls[k]) /\ Unresolvable(call.urls[k])

\* C18: when exactly one candidate of the list is reachable and image-typed
\* and every other candidate is empty or a well-formed but unreachable URL,
\* getBestImageUrl returns method original with the reachable candidate as
\* processedUrl, wherever that candidate stands in the list.
C18_OnlyReachableCandidateWins ==
    (Returned /\ call.kind = "best") =>
        \A g \in Invocations :
            (/\ ReachableImage(g)
             /\ \A k \in Invocations \ {g} : EmptyOrUnreachable(k)) =>
                /\ ret.value[1].processingMethod = "original"
                /\ ret.value[1].processedUrl = Trim(call.urls[g])

Fresh(key) ==
    key \in DOMAIN stored /\ now - stored[key].at <= CACHE_DURATION

\* what get must return for `key` now
Expected(key) == IF Fresh(key) THEN stored[key].data ELSE "null"

\* C20: the server cache has a fixed 24-hour expiry.  After any sequence of
\* set, get, has, cleanup and clear, get(u) returns the response of the latest
\* set under the key of u exactly when that set is no more than 24 hours old
\* and no clear followed it, and a miss otherwise, and has(u) tells the same;
\* get and cleanup remove the same entries, those older than 24 hours, so the
\* map always holds every fresh entry, holds nothing but what was stored, and
\* holds no expired entry once get looked it up or cleanup ran.
C20_CacheExpiry ==
    /\ lastOp.op = "get" =>
          /\ lastOp.value = Expected(lastOp.key)
          /\ lastOp.key \in DOMAIN cache <=> Fresh(lastOp.key)
    /\ lastOp.op = "has" =>
          /\ lastOp.value = (IF Fresh(lastOp.key) THEN "true" ELSE "false")
          /\ lastOp.key \in DOMAIN cache <=> Fresh(lastOp.key)
    /\ lastOp.op = "cleanup" =>
          DOMAIN cache = {k \in DOMAIN stored : Fresh(k)}
    /\ lastOp.op = "clear" => cache = <<>>
    /\ \A k \in DOMAIN stored : Fresh(k) => k \in DOMAIN cache
    /\ \A k \in DOMAIN cache :
          /\ k \in DOMAIN stored
          /\ cache[k].data = stored[k].data
          /\ cache[k].timestamp = stored[k].at

\* a hit at exactly 24 hours, then a miss one millisecond later that deleted
\* the entry
C20_Witness ==
    /\ lastOp.op = "get"
    /\ lastOp.key = getCacheKey(ProductUrl)
    /\ lastOp.value = "null"
    /\ lastOp.key \in DOMAIN stored
    /\ now - stored[lastOp.key].at = CACHE_DURATION + 1
    /\ lastOp.key \notin DOMAIN cache
    /\ getCacheKey(OtherProductUrl) \in DOMAIN cache

\* C23: a URL whose host is not a loopback address is never classified
\* reachable without a network request: a probe that returned true without a
\* fetch attempt probed a URL whose host is loopback, not one that only
\* contains the text "localhost" or "127.0.0.1" elsewhere.
C23_ShortCircuitOnlyForLoopbackHost ==
    \A i \in Invocations :
        \A k \in 1..Len(proc[i].probes) :
            (proc[i].probes[k].accessible /\ proc[i].probes[k].attempts = 0) =>
                /\ UrlParses(proc[i].probes[k].url)
                /\ UrlHost(proc[i].probes[k].url) \in LoopbackHosts

\* how far an invocation is from its return: stages left, attempts left in
\* the probe in progress, and the position inside the attempt
StepsLeft(st) ==
    IF st.pc \notin {"fetching", "settled", "backoff"} THEN 0
    ELSE (CASE st.stage = "original"  -> 3
            [] st.stage = "converted" -> 2
            [] OTHER                  -> 1) * 3 * MAX_RETRIES
         + (MAX_RETRIES - st.attempt) * 3
         + (CASE st.pc = "fetching" -> 2
              [] st.pc = "settled"  -> 1
              [] OTHER              -> 0)

\* the URLs invocation i has probed or is probing, in order
ProbedUrls(st) ==
    [k \in 1..Len(st.probes) |-> st.probes[k].url]
    \o (IF st.pc \in {"fetching", "settled", "backoff"} THEN <<st.url>> ELSE <<>>)

\* C25: every processImageUrl invocation terminates once each fetch attempt
\* completes or times out: each of its steps brings it closer to its return,
\* it probes at most three URLs, never the same URL twice, and issues at most
\* 9 fetch attempts in all.
C25_BoundedProbing ==
    [][\A i \in 1..Len(proc') :
          LET st == proc'[i]
              u  == ProbedUrls(st)
          IN  /\ Len(u) <= 3
              /\ \A a, b \in 1..Len(u) : a # b => u[a] # u[b]
              /\ st.fetches <= 3 * MAX_RETRIES
              /\ StepsLeft(st) >= 0
              /\ (i <= Len(proc) /\ st # proc[i]) =>
                    StepsLeft(st) < StepsLeft(proc[i])]_vars

C25_Witness ==
    \E i \in Invocations :
        /\ Done(i)
        /\ Len(proc[i].probes) = 3
        /\ proc[i].fetches = 3 * MAX_RETRIES
        /\ proc[i].result.processingMethod = "fallback"

\* the generate-video request reached its Veo3 call
Veo3Called == video.pc \in {"veo3", "responded"} /\ "imageUrl" \in DOMAIN video

\* the URLs ImageProcessor returned to the generate-video request
ProcessorReturned ==
    {video.productResult.processedUrl}
        \cup (IF video.avatarResult # NoResult
              THEN {video.avatarResult.processedUrl} ELSE {})

\* C22: in POST /api/generate-video the image_url submitted to the video model
\* is a URL ImageProcessor returned, or the enhancement output for such a URL;
\* a request-supplied URL is never submitted unprocessed.
C22_Veo3ImageIsProcessed ==
    \A c \in calls :
        c.endpoint = VEO3 =>
            /\ Veo3Called
            /\ \/ c.image \in ProcessorReturned
               \/ c.image \in {Enhanced(u) : u \in ProcessorReturned}

\* the failure class of a provider error and the status the route keeps for it
FailureStatus(o) ==
    CASE o \in {RawValidation, RawValidationStatus} -> 422
      [] o = RawUnauthorized                        -> 401
      [] o \in {RawRateLimit, RawQuota}             -> 429
      [] o = RawImage                               -> 400
      [] OTHER                                      -> 500

Veo3Answered == video.pc = "responded" /\ "outcome" \in DOMAIN video

\* C29: a Veo3 failure of a class (authentication, quota or rate limit, image,
\* validation) is answered with the status of that class, 401, 429, 400, 422; a
\* 422 / Unprocessable Entity failure in particular is answered with 422.
C29_FailureClassKeepsItsStatus ==
    (Veo3Answered /\ video.outcome \in ProviderErrors) =>
        video.resp.status = FailureStatus(video.outcome)

\* the provider calls issued for a request of a route
CallsFor(route, request) ==
    {c \in calls : c.route = route /\ c.request = request}

\* C21: in every route the API-key check precedes the provider call: for a
\* request handled while the key of its provider (GEMINI_API_KEY, FAL_KEY,
\* Apify token) is not configured, no call to that provider is ever issued.
C21_NoProviderCallWithoutKey ==
    /\ (video.pc # "idle" /\ ~video.req.falKey) =>
           CallsFor("generate-video", 1) = {}
    /\ (gemini.pc # "idle" /\ ~gemini.req.key) =>
           \A step \in 1..2 : CallsFor(gemini.route, step) = {}
    /\ \A i \in 1..Len(scrape) :
           ~scrape[i].req.token => CallsFor("scrape-product", i) = {}
    /\ \A c \in calls : c.key

\* a valid scrape request for an uncached URL came without a token, was
\* answered 503, and a request with the token did reach the scraper
C21_Witness ==
    /\ \E i \in 1..Len(scrape) :
           /\ scrape[i].req.valid /\ ~scrape[i].req.token
           /\ scrape[i].resp.status = 503
           /\ CallsFor("scrape-product", i) = {}
    /\ \E i \in 1..Len(scrape) : CallsFor("scrape-product", i) # {}

\* the results ImageProcessor has produced so far
ProducedResults ==
    {proc[i].result : i \in {j \in 1..Len(proc) : proc[j].pc = "done"}}
        \cup (IF ret.status = "returned"
              THEN {ret.value[k] : k \in 1..Len(ret.value)} ELSE {})
        \cup (IF "productResult" \in DOMAIN video THEN {video.productResult} ELSE {})
        \cup (IF "avatarResult" \in DOMAIN video
              THEN {video.avatarResult} \ {NoResult} ELSE {})

\* C24: isValid is true in every result ImageProcessor produces, on every
\* path; POST /api/generate-video therefore never answers "Product image
\* processing failed" and never takes its avatar-failure branch.
C24_IsValidAlwaysTrue ==
    /\ \A r \in ProducedResults : r.isValid
    /\ video.pc = "responded" =>
           video.resp.error # "Product image processing failed"
    /\ ("avatarResult" \in DOMAIN video /\ video.avatarResult # NoResult) =>
           video.imageUrl = video.avatarResult.processedUrl
              \/ video.imageUrl = Enhanced(video.avatarResult.processedUrl)

\* every probe of the product image and of the avatar image failed, and the
\* route went on to the video model with the placeholder
C24_Witness ==
    /\ video.pc = "veo3"
    /\ video.productResult.processingMethod = "fallback"
    /\ video.productResult.error # NoError
    /\ video.avatarResult # NoResult
    /\ video.avatarResult.processingMethod = "fallback"
    /\ video.imageUrl = FALLBACK_IMAGE

\* the requests that started a scraper run
Ran(i) == scrape[i].ran

SameKey(i, j) == getCacheKey(scrape[i].req.url) = getCacheKey(scrape[j].req.url)

\* C26: for a URL, at most one scraper run is started per cache window: no
\* run is started while a fresh successful response for the URL is stored,
\* and of the requests for an uncached URL that overlap in time only one
\* starts a run; only successful responses are stored.
C26_OneScraperRunPerWindow ==
    /\ \A j \in 1..Len(scrape) :
           (Ran(j) /\ getCacheKey(scrape[j].req.url) \in DOMAIN stored) =>
               LET e == stored[getCacheKey(scrape[j].req.url)]
               IN  e.at >= scrape[j].receivedAt
                      \/ Expired(e.at, scrape[j].receivedAt)
    /\ \A i, j \in 1..Len(scrape) :
           (i \in scrape[j].pending /\ SameKey(i, j)) => ~(Ran(i) /\ Ran(j))
    /\ \A k \in DOMAIN cache : cache[k].data \in Responses

\* the data keys and the expiry keys of the browser cache
DataKeys == {key \in DOMAIN storage : IsCacheKey(key) /\ ~IsExpiryKey(key)}

ExpiryKeys == {key \in DOMAIN storage : IsCacheKey(key) /\ IsExpiryKey(key)}

\* C27: after any sequence of CacheManager calls, a failing localStorage
\* write included, a data key is present exactly when its "_expiry" key is
\* present: there is no orphan data entry.
C27_DataKeyIffExpiryKey ==
    /\ \A key \in DataKeys : ExpiryKey(key) \in DOMAIN storage
    /\ \A key \in ExpiryKeys : DataKeyOf(key) \in DOMAIN storage

\* C28: clearAllCache returns the number of entries it cleared, the
\* totalEntries that getCacheStats reported just before the call, and leaves
\* getCacheStats reporting 0 entries.
C28_ClearAllReturnsEntryCount ==
    [][lastOp'.op = "clearAllCache" =>
          /\ lastOp'.count = TotalEntries(storage)
          /\ TotalEntries(storage') = 0]_vars

\* the handlers that await the response of a request
InFlight == {h \in 1..Len(page.handlers) : page.handlers[h].pc # "done"}

\* C30: while a scrape or generate-ad request is in flight, status is
\* "scraping" or "generating", so that no second request is started; a timer
\* left over from an earlier request never sets status to "idle" meanwhile.
C30_StatusHeldWhileInFlight ==
    /\ InFlight # {} => page.status \in {"scraping", "generating"}
    /\ Cardinality(InFlight) <= 1

====
